---- MODULE Spec2Model ----
(***************************************************************************)
(* Model of dimod::AdjVectorBQM<V, B> (dimod/adjvectorbqm.h): a vector of  *)
(* (neighborhood, linear bias) pairs, each neighborhood a vector of        *)
(* (neighbor index, quadratic bias) pairs searched with std::lower_bound.  *)
(*                                                                         *)
(* C++ indices are zero-based; a C++ vector x is the TLA+ sequence whose   *)
(* element x[i] is the (i+1)-th.  An iterator of a vector is its offset    *)
(* from begin(), so end() is the length of the sequence.  A std::pair is a *)
(* two-tuple (pair[1] is .first, pair[2] is .second) inside neighborhoods  *)
(* and the record [first, second] for the elements of adj.                 *)
(***************************************************************************)
EXTENDS Integers, Sequences, FiniteSets, TLC

VARIABLES adj,      \* the member adj
          op,       \* name of the call that has just returned, "idle" between calls
          args,     \* arguments of the last call
          ret,      \* value returned by the last call
          prev,     \* value of adj when the last call was entered
          ub        \* the last call dereferenced or erased at a position it must not

vars == <<adj, op, args, ret, prev, ub>>

\* Largest number of variables the structure is grown or constructed to.
MaxVars == 3

\* Biases passed to set_linear and set_quadratic.
Bias == {0, 1}

\* Values of the entries of the dense array passed to the constructor.
DenseVals == {-1, 0, 1}

\* What erase(end()) may do to the vector: leave it, or drop its last element.
UBOutcome == {"noop", "droplast"}

----------------------------------------------------------------------------
(* Helpers of the standard library and of dimod/utils.h                    *)

\* utils::comp_v: orders a neighborhood entry against a variable index.
comp_v(ub_, v) == ub_[1] < v

RECURSIVE lower_bound_loop(_, _, _, _)
lower_bound_loop(span, first, len, v) ==
    IF len > 0
    THEN LET half == len \div 2
             middle == first + half
         IN  IF comp_v(span[middle + 1], v)
             THEN lower_bound_loop(span, middle + 1, len - half - 1, v)
             ELSE lower_bound_loop(span, first, half, v)
    ELSE first

\* std::lower_bound(span.first, span.second, v, utils::comp_v<V, B>)
lower_bound(span, v) == lower_bound_loop(span, 0, Len(span), v)

\* !(low == span.second || low->first != v)
found(span, low, v) == ~(low = Len(span) \/ span[low + 1][1] # v)

\* std::vector::erase(low); erase(end()) is undefined
erase(s, low, ubc) ==
    IF low < Len(s)
    THEN SubSeq(s, 1, low) \o SubSeq(s, low + 2, Len(s))
    ELSE IF ubc = "droplast" /\ Len(s) > 0 THEN SubSeq(s, 1, Len(s) - 1) ELSE s

\* std::vector::emplace(low, v, b)
emplace(s, low, v, b) ==
    SubSeq(s, 1, low) \o <<<<v, b>>>> \o SubSeq(s, low + 1, Len(s))

\* emplace_back as an insertion at begin()
emplace_front(s, v, b) == <<<<v, b>>>> \o s

\* std::vector::emplace_back(v, b)
emplace_back(s, v, b) == Append(s, <<v, b>>)

\* value-initialised element of adj: empty neighborhood, zero bias
NewVariable == [first |-> <<>>, second |-> 0]

\* adj.resize(n) on an empty vector
resize(n) == [i \in 1..n |-> NewVariable]

----------------------------------------------------------------------------
(* Read-only members                                                       *)

num_variables(a) == Len(a)

degree(a, v) == Len(a[v + 1].first)

get_linear(a, v) == a[v + 1].second

neighborhood(a, u) == a[u + 1].first

\* get_quadratic without the test low->first != v
get_quadratic_any(a, u, v) ==
    LET span == neighborhood(a, u)
        low == lower_bound(span, v)
    IN  IF low = Len(span)
        THEN <<0, FALSE>>
        ELSE <<span[low + 1][2], TRUE>>

get_quadratic(a, u, v) ==
    LET span == neighborhood(a, u)
        low == lower_bound(span, v)
    IN  IF low = Len(span) \/ span[low + 1][1] # v
        THEN <<0, FALSE>>
        ELSE <<span[low + 1][2], TRUE>>

RECURSIVE count_loop(_, _)
count_loop(a, it) ==
    IF it > Len(a) THEN 0 ELSE Len(a[it].first) + count_loop(a, it + 1)

num_interactions(a) == count_loop(a, 1) \div 2

----------------------------------------------------------------------------
(* Constructors                                                            *)

\* set_linear, which the copying constructor calls
set_linear(a, v, b) == [a EXCEPT ![v + 1].second = b]

\* the range insertion putting the elements in one at a time, each at pos
insert_range_each_at_pos(s, pos, span) ==
    SubSeq(s, 1, pos) \o [i \in 1..Len(span) |-> span[Len(span) + 1 - i]]
                      \o SubSeq(s, pos + 1, Len(s))

\* std::vector::insert(pos, span.first, span.second)
insert_range(s, pos, span) ==
    SubSeq(s, 1, pos) \o span \o SubSeq(s, pos + 1, Len(s))

\* the loop of the copying constructor; bqm is read through num_variables,
\* get_linear and neighborhood only
RECURSIVE copy_loop(_, _, _)
copy_loop(a, bqm, v) ==
    IF v < num_variables(bqm)
    THEN LET a1 == set_linear(a, v, get_linear(bqm, v))
             span == neighborhood(bqm, v)
             a2 == [a1 EXCEPT ![v + 1].first = insert_range(@, 0, span)]
         IN  copy_loop(a2, bqm, v + 1)
    ELSE a

\* AdjVectorBQM(const BQM &bqm)
CopyConstruct(bqm) == copy_loop(resize(num_variables(bqm)), bqm, 0)

\* the (u, v) pairs of the nested loops, in the order the loops visit them
RECURSIVE dense_pairs(_, _, _)
dense_pairs(n, u, v) ==
    IF u >= n THEN <<>>
    ELSE IF v >= n THEN dense_pairs(n, u + 1, u + 2)
    ELSE <<<<u, v>>>> \o dense_pairs(n, u, v + 1)

RECURSIVE dense_loop(_, _, _, _)
dense_loop(a, dense, n, pairs) ==
    IF pairs = <<>> THEN a
    ELSE LET u == Head(pairs)[1]
             v == Head(pairs)[2]
             qbias == dense[u * n + v] + dense[v * n + u]
             a1 == IF qbias # 0
                   THEN [a EXCEPT ![u + 1].first = emplace_back(@, v, qbias),
                                  ![v + 1].first = emplace_back(@, u, qbias)]
                   ELSE a
         IN  dense_loop(a1, dense, n, Tail(pairs))

\* the loop body taking the upper triangle alone as the quadratic bias
RECURSIVE dense_loop_upper(_, _, _, _)
dense_loop_upper(a, dense, n, pairs) ==
    IF pairs = <<>> THEN a
    ELSE LET u == Head(pairs)[1]
             v == Head(pairs)[2]
             qbias == dense[u * n + v]
             a1 == IF qbias # 0
                   THEN [a EXCEPT ![u + 1].first = emplace_back(@, v, qbias),
                                  ![v + 1].first = emplace_back(@, u, qbias)]
                   ELSE a
         IN  dense_loop_upper(a1, dense, n, Tail(pairs))

\* the dense constructor without the sum of the two triangles
DenseConstruct_upper(dense, n, ignore_diagonal) ==
    LET a0 == resize(n)
        a1 == IF ~ignore_diagonal
              THEN [i \in 1..n |-> [a0[i] EXCEPT !.second = dense[(i - 1) * (n + 1)]]]
              ELSE a0
    IN  dense_loop_upper(a1, dense, n, dense_pairs(n, 0, 1))

\* the pairs of the nested loops with the inner loop started at v = u
RECURSIVE dense_pairs_from_u(_, _, _)
dense_pairs_from_u(n, u, v) ==
    IF u >= n THEN <<>>
    ELSE IF v >= n THEN dense_pairs_from_u(n, u + 1, u + 1)
    ELSE <<<<u, v>>>> \o dense_pairs_from_u(n, u, v + 1)

\* the dense constructor with the inner loop started at v = u
DenseConstruct_from_u(dense, n, ignore_diagonal) ==
    LET a0 == resize(n)
        a1 == IF ~ignore_diagonal
              THEN [i \in 1..n |-> [a0[i] EXCEPT !.second = dense[(i - 1) * (n + 1)]]]
              ELSE a0
    IN  dense_loop(a1, dense, n, dense_pairs_from_u(n, 0, 0))

\* AdjVectorBQM(const B2 dense[], size_type num_variables, bool ignore_diagonal)
DenseConstruct(dense, n, ignore_diagonal) ==
    LET a0 == resize(n)
        a1 == IF ~ignore_diagonal
              THEN [i \in 1..n |-> [a0[i] EXCEPT !.second = dense[(i - 1) * (n + 1)]]]
              ELSE a0
    IN  dense_loop(a1, dense, n, dense_pairs(n, 0, 1))

----------------------------------------------------------------------------
(* Mutating members, as functions from the entry state to the exit state.  *)
(* Besides adj and ret, the result of a member that looks an entry up from *)
(* the other side records in mirror whether every such lookup agreed with  *)
(* the first one: for set_quadratic and remove_interaction, the asserted   *)
(* !(low == span.second || low->first != u) == exists; for pop_variable,   *)
(* that low points at an entry for v each time round the loop.             *)

\* add_variable returning the size after the resize
add_variable_size(a) == [adj |-> Append(a, NewVariable), ret |-> Len(a) + 1]

add_variable(a) == [adj |-> Append(a, NewVariable), ret |-> Len(a) + 1 - 1]

\* the loop of pop_variable over the entries of adj[v].first
RECURSIVE pop_loop(_, _, _, _)
pop_loop(st, its, v, ubc) ==
    IF its = <<>> THEN st
    ELSE LET n == Head(its)[1]
         IN  IF n < 0 \/ n >= Len(st.adj)
             THEN pop_loop([st EXCEPT !.ub = TRUE, !.mirror = FALSE], Tail(its), v, ubc)
             ELSE LET span == neighborhood(st.adj, n)
                      low == lower_bound(span, v)
                  IN  pop_loop([adj |-> [st.adj EXCEPT ![n + 1].first = erase(span, low, ubc)],
                                ub |-> st.ub \/ low = Len(span),
                                mirror |-> st.mirror /\ found(span, low, v)],
                               Tail(its), v, ubc)

\* pop_variable without the loop over the neighbors
pop_variable_no_loop(a, ubc) ==
    LET popped == SubSeq(a, 1, Len(a) - 1)
    IN  [adj |-> popped, ret |-> Len(popped), ub |-> FALSE, mirror |-> TRUE]

\* pop_variable returning the index of the removed variable
pop_variable_ret_index(a, ubc) ==
    LET v == Len(a) - 1
        st == pop_loop([adj |-> a, ub |-> FALSE, mirror |-> TRUE], a[v + 1].first, v, ubc)
        popped == SubSeq(st.adj, 1, Len(st.adj) - 1)
    IN  [adj |-> popped, ret |-> v + 1, ub |-> st.ub, mirror |-> st.mirror]

\* pop_variable removing the first variable of adj instead of the last
pop_variable_front(a, ubc) ==
    LET v == Len(a) - 1
        st == pop_loop([adj |-> a, ub |-> FALSE, mirror |-> TRUE], a[v + 1].first, v, ubc)
        popped == SubSeq(st.adj, 2, Len(st.adj))
    IN  [adj |-> popped, ret |-> Len(popped), ub |-> st.ub, mirror |-> st.mirror]

pop_variable(a, ubc) ==
    LET v == Len(a) - 1
        st == pop_loop([adj |-> a, ub |-> FALSE, mirror |-> TRUE], a[v + 1].first, v, ubc)
        popped == SubSeq(st.adj, 1, Len(st.adj) - 1)
    IN  [adj |-> popped, ret |-> Len(popped), ub |-> st.ub, mirror |-> st.mirror]

\* remove_interaction erasing u's copy only
remove_interaction_one_side(a, u, v, ubc) ==
    LET span == neighborhood(a, u)
        low == lower_bound(span, v)
        exists == found(span, low, v)
    IN  IF exists
        THEN [adj |-> [a EXCEPT ![u + 1].first = erase(span, low, ubc)],
              ret |-> exists,
              ub |-> FALSE,
              mirror |-> TRUE]
        ELSE [adj |-> a, ret |-> exists, ub |-> FALSE, mirror |-> TRUE]

\* remove_interaction with exists = !(low == span.second)
remove_interaction_any(a, u, v, ubc) ==
    LET span == neighborhood(a, u)
        low == lower_bound(span, v)
        exists == ~(low = Len(span))
    IN  IF exists
        THEN LET a1 == [a EXCEPT ![u + 1].first = erase(span, low, ubc)]
                 span2 == neighborhood(a1, v)
                 low2 == lower_bound(span2, u)
             IN  [adj |-> [a1 EXCEPT ![v + 1].first = erase(span2, low2, ubc)],
                  ret |-> exists,
                  ub |-> low2 = Len(span2),
                  mirror |-> found(span2, low2, u) = exists]
        ELSE [adj |-> a, ret |-> exists, ub |-> FALSE, mirror |-> TRUE]

remove_interaction(a, u, v, ubc) ==
    LET span == neighborhood(a, u)
        low == lower_bound(span, v)
        exists == found(span, low, v)
    IN  IF exists
        THEN LET a1 == [a EXCEPT ![u + 1].first = erase(span, low, ubc)]
                 span2 == neighborhood(a1, v)
                 low2 == lower_bound(span2, u)
             IN  [adj |-> [a1 EXCEPT ![v + 1].first = erase(span2, low2, ubc)],
                  ret |-> exists,
                  ub |-> low2 = Len(span2),
                  mirror |-> found(span2, low2, u) = exists]
        ELSE [adj |-> a, ret |-> exists, ub |-> FALSE, mirror |-> TRUE]

\* set_quadratic overwriting u's copy only when the edge exists
set_quadratic_no_mirror(a, u, v, b) ==
    LET span == neighborhood(a, u)
        low == lower_bound(span, v)
        exists == found(span, low, v)
        a1 == IF exists
              THEN [a EXCEPT ![u + 1].first[low + 1][2] = b]
              ELSE [a EXCEPT ![u + 1].first = emplace(span, low, v, b)]
        span2 == neighborhood(a1, v)
        low2 == lower_bound(span2, u)
        a2 == IF exists
              THEN a1
              ELSE [a1 EXCEPT ![v + 1].first = emplace(span2, low2, u, b)]
    IN  [adj |-> a2, ret |-> TRUE, ub |-> FALSE, mirror |-> found(span2, low2, u) = exists]

\* set_quadratic inserting new entries at end() instead of at low
set_quadratic_append(a, u, v, b) ==
    LET span == neighborhood(a, u)
        low == lower_bound(span, v)
        exists == found(span, low, v)
        a1 == IF exists
              THEN [a EXCEPT ![u + 1].first[low + 1][2] = b]
              ELSE [a EXCEPT ![u + 1].first = emplace(span, Len(span), v, b)]
        span2 == neighborhood(a1, v)
        low2 == lower_bound(span2, u)
        a2 == IF exists
              THEN IF low2 < Len(span2)
                   THEN [a1 EXCEPT ![v + 1].first[low2 + 1][2] = b]
                   ELSE a1
              ELSE [a1 EXCEPT ![v + 1].first = emplace(span2, Len(span2), u, b)]
    IN  [adj |-> a2, ret |-> TRUE, ub |-> exists /\ low2 = Len(span2),
         mirror |-> found(span2, low2, u) = exists]

\* set_quadratic inserting without looking whether the edge exists
set_quadratic_always_insert(a, u, v, b) ==
    LET span == neighborhood(a, u)
        low == lower_bound(span, v)
        a1 == [a EXCEPT ![u + 1].first = emplace(span, low, v, b)]
        span2 == neighborhood(a1, v)
        low2 == lower_bound(span2, u)
        a2 == [a1 EXCEPT ![v + 1].first = emplace(span2, low2, u, b)]
    IN  [adj |-> a2, ret |-> TRUE, ub |-> FALSE, mirror |-> TRUE]

\* set_quadratic creating no edge for a zero bias, as the dense constructor does
set_quadratic_skip_zero(a, u, v, b) ==
    LET span == neighborhood(a, u)
        low == lower_bound(span, v)
        exists == found(span, low, v)
        a1 == IF exists
              THEN [a EXCEPT ![u + 1].first[low + 1][2] = b]
              ELSE IF b # 0
                   THEN [a EXCEPT ![u + 1].first = emplace(span, low, v, b)]
                   ELSE a
        span2 == neighborhood(a1, v)
        low2 == lower_bound(span2, u)
        a2 == IF exists
              THEN IF low2 < Len(span2)
                   THEN [a1 EXCEPT ![v + 1].first[low2 + 1][2] = b]
                   ELSE a1
              ELSE IF b # 0
                   THEN [a1 EXCEPT ![v + 1].first = emplace(span2, low2, u, b)]
                   ELSE a1
    IN  [adj |-> a2, ret |-> TRUE, ub |-> exists /\ low2 = Len(span2),
         mirror |-> found(span2, low2, u) = exists]

set_quadratic(a, u, v, b) ==
    LET span == neighborhood(a, u)
        low == lower_bound(span, v)
        exists == found(span, low, v)
        a1 == IF exists
              THEN [a EXCEPT ![u + 1].first[low + 1][2] = b]
              ELSE [a EXCEPT ![u + 1].first = emplace(span, low, v, b)]
        span2 == neighborhood(a1, v)
        low2 == lower_bound(span2, u)
        a2 == IF exists
              THEN IF low2 < Len(span2)
                   THEN [a1 EXCEPT ![v + 1].first[low2 + 1][2] = b]
                   ELSE a1
              ELSE [a1 EXCEPT ![v + 1].first = emplace(span2, low2, u, b)]
    IN  [adj |-> a2, ret |-> TRUE, ub |-> exists /\ low2 = Len(span2),
         mirror |-> found(span2, low2, u) = exists]

----------------------------------------------------------------------------
(* The object as a state machine: a caller that constructs the object and  *)
(* then makes one call at a time, looking at each result before the next   *)

Vars(a) == 0 .. (Len(a) - 1)

DenseArrays(n) == [0 .. (n * n - 1) -> DenseVals]

\* AdjVectorBQM()
InitEmpty ==
    /\ adj = <<>>
    /\ op = "AdjVectorBQM"
    /\ args = <<>>
    /\ ret = <<>>
    /\ prev = <<>>
    /\ ub = FALSE

\* AdjVectorBQM(dense, num_variables, ignore_diagonal)
InitDense ==
    \E n \in 0..MaxVars :
        \E dense \in DenseArrays(n) :
            \E ignore_diagonal \in BOOLEAN :
                /\ adj = DenseConstruct(dense, n, ignore_diagonal)
                /\ op = "AdjVectorBQM(dense)"
                /\ args = <<dense, n, ignore_diagonal>>
                /\ ret = <<>>
                /\ prev = <<>>
                /\ ub = FALSE

Init == InitEmpty

InitAny == InitEmpty \/ InitDense

\* the caller has looked at the result of the last call and is free to make the next
Return ==
    /\ op # "idle"
    /\ op' = "idle"
    /\ args' = <<>>
    /\ ret' = <<>>
    /\ prev' = <<>>
    /\ ub' = FALSE
    /\ UNCHANGED adj

AddVariable ==
    /\ op = "idle"
    /\ Len(adj) < MaxVars
    /\ LET r == add_variable(adj)
       IN  /\ adj' = r.adj
           /\ ret' = r.ret
    /\ op' = "add_variable"
    /\ args' = <<>>
    /\ prev' = adj
    /\ ub' = FALSE

PopVariable ==
    /\ op = "idle"
    /\ Len(adj) > 0
    /\ \E ubc \in UBOutcome :
          LET r == pop_variable(adj, ubc)
          IN  /\ adj' = r.adj
              /\ ret' = r.ret
              /\ ub' = r.ub
    /\ op' = "pop_variable"
    /\ args' = <<>>
    /\ prev' = adj

SetLinear ==
    /\ op = "idle"
    /\ \E v \in Vars(adj) :
          \E b \in Bias :
              /\ adj' = set_linear(adj, v, b)
              /\ args' = <<v, b>>
    /\ op' = "set_linear"
    /\ ret' = <<>>
    /\ prev' = adj
    /\ ub' = FALSE

SetQuadratic ==
    /\ op = "idle"
    /\ \E u \in Vars(adj) :
          \E v \in Vars(adj) \ {u} :
              \E b \in Bias :
                  LET r == set_quadratic(adj, u, v, b)
                  IN  /\ adj' = r.adj
                      /\ ret' = r.ret
                      /\ ub' = r.ub
                      /\ args' = <<u, v, b>>
    /\ op' = "set_quadratic"
    /\ prev' = adj

RemoveInteraction ==
    /\ op = "idle"
    /\ \E u \in Vars(adj) :
          \E v \in Vars(adj) :
              \E ubc \in UBOutcome :
                  LET r == remove_interaction(adj, u, v, ubc)
                  IN  /\ adj' = r.adj
                      /\ ret' = r.ret
                      /\ ub' = r.ub
                      /\ args' = <<u, v>>
    /\ op' = "remove_interaction"
    /\ prev' = adj

GetQuadratic ==
    /\ op = "idle"
    /\ \E u \in Vars(adj) :
          \E v \in Vars(adj) \ {u} :
              /\ ret' = get_quadratic(adj, u, v)
              /\ args' = <<u, v>>
    /\ op' = "get_quadratic"
    /\ prev' = adj
    /\ ub' = FALSE
    /\ UNCHANGED adj

Next ==
    \/ Return
    \/ AddVariable
    \/ PopVariable
    \/ SetLinear
    \/ SetQuadratic
    \/ RemoveInteraction
    \/ GetQuadratic

\* Number of variables of the objects handed to the copying constructor.
SourceSizes == {0, 1, 2}

\* Longest neighborhood of an object handed to the copying constructor.
MaxSourceDegree == 2

\* the neighborhoods a source of n variables may expose: any sequence of
\* entries, sorted or not, mirrored or not
SourceSpans(n) ==
    UNION {[1..k -> (0..(n - 1)) \X Bias] : k \in 0..MaxSourceDegree}

Sources ==
    UNION {[1..n -> [first : SourceSpans(n), second : Bias]] : n \in SourceSizes}

\* AdjVectorBQM(bqm), bqm any object with the read members
InitCopy ==
    \E bqm \in Sources :
        /\ adj = CopyConstruct(bqm)
        /\ op = "AdjVectorBQM(bqm)"
        /\ args = <<>>
        /\ ret = <<>>
        /\ prev = bqm
        /\ ub = FALSE

\* AdjVectorBQM(bqm), bqm the object itself: a copy of the copy
Copy ==
    /\ op = "idle"
    /\ adj' = CopyConstruct(adj)
    /\ op' = "AdjVectorBQM(bqm)"
    /\ args' = <<>>
    /\ ret' = <<>>
    /\ prev' = adj
    /\ ub' = FALSE

NextCopy ==
    \/ Return
    \/ Copy

\* the object after construction from another object
SpecCopy == InitCopy /\ [][NextCopy]_vars

\* Biases of the worked example, in halves: 1.5, 2.0 and -1.0 are 3, 4 and
\* -2; the example is run with each of its three biases drawn from this set.
ScenarioBias == {-2, 0, 3, 4}

\* add_variable(), three times from the empty structure
ScnAddVariable ==
    /\ op \in {"AdjVectorBQM", "add_variable"}
    /\ Len(adj) < 3
    /\ LET r == add_variable(adj)
       IN  /\ adj' = r.adj
           /\ ret' = r.ret
    /\ op' = "add_variable"
    /\ args' = <<>>
    /\ prev' = adj
    /\ ub' = FALSE

\* set_linear(0, 1.5)
ScnSetLinear ==
    /\ op = "add_variable"
    /\ Len(adj) = 3
    /\ \E b \in ScenarioBias :
          /\ adj' = set_linear(adj, 0, b)
          /\ args' = <<0, b>>
    /\ op' = "set_linear"
    /\ ret' = <<>>
    /\ prev' = adj
    /\ ub' = FALSE

\* set_quadratic(0, 1, 2.0)
ScnSetQuadratic01 ==
    /\ op = "set_linear"
    /\ \E b \in ScenarioBias :
          LET r == set_quadratic(adj, 0, 1, b)
          IN  /\ adj' = r.adj
              /\ ret' = r.ret
              /\ ub' = r.ub
              /\ args' = <<0, 1, b>>
    /\ op' = "set_quadratic"
    /\ prev' = adj

\* set_quadratic(1, 2, -1.0)
ScnSetQuadratic12 ==
    /\ op = "set_quadratic"
    /\ args[1] = 0
    /\ \E b \in ScenarioBias :
          LET r == set_quadratic(adj, 1, 2, b)
          IN  /\ adj' = r.adj
              /\ ret' = r.ret
              /\ ub' = r.ub
              /\ args' = <<1, 2, b>>
    /\ op' = "set_quadratic"
    /\ prev' = adj

\* remove_interaction(0, 1)
ScnRemoveInteraction ==
    /\ op = "set_quadratic"
    /\ args[1] = 1
    /\ \E ubc \in UBOutcome :
          LET r == remove_interaction(adj, 0, 1, ubc)
          IN  /\ adj' = r.adj
              /\ ret' = r.ret
              /\ ub' = r.ub
    /\ args' = <<0, 1>>
    /\ op' = "remove_interaction"
    /\ prev' = adj

\* pop_variable()
ScnPopVariable ==
    /\ op = "remove_interaction"
    /\ \E ubc \in UBOutcome :
          LET r == pop_variable(adj, ubc)
          IN  /\ adj' = r.adj
              /\ ret' = r.ret
              /\ ub' = r.ub
    /\ op' = "pop_variable"
    /\ args' = <<>>
    /\ prev' = adj

NextScenario ==
    \/ ScnAddVariable
    \/ ScnSetLinear
    \/ ScnSetQuadratic01
    \/ ScnSetQuadratic12
    \/ ScnRemoveInteraction
    \/ ScnPopVariable

\* the worked example: the calls above, in this order, from the empty structure
SpecScenario == InitEmpty /\ [][NextScenario]_vars

\* the object after default construction
Spec == Init /\ [][Next]_vars

\* the same object as Spec; the comparison of every two set_quadratic calls
\* in both orders is checked in a run of its own
SpecOrder == InitEmpty /\ [][Next]_vars

\* the object after default construction or construction from a dense array
SpecDense == InitAny /\ [][Next]_vars

----------------------------------------------------------------------------
(* Vocabulary of the properties: what a neighborhood holds, found by a     *)
(* scan of the whole sequence rather than by the binary search             *)

\* the biases that span stores under neighbor index v
Scan(span, v) == {span[i][2] : i \in {j \in 1..Len(span) : span[j][1] = v}}

\* a holds the entry (v, b) in u's neighborhood
HasEntry(a, u, v, b) == \E i \in 1..Len(a[u + 1].first) : a[u + 1].first[i] = <<v, b>>

\* u's neighborhood holds some entry for v
HasEdge(a, u, v) == Scan(a[u + 1].first, v) # {}

\* span without its entries for v, order kept
Without(span, v) == SelectSeq(span, LAMBDA e : e[1] # v)

RECURSIVE SumDegrees(_, _)
SumDegrees(a, n) == IF n = 0 THEN 0 ELSE degree(a, n - 1) + SumDegrees(a, n - 1)

\* number of unordered pairs {u, v} with an entry on either side
EdgeCount(a) ==
    Cardinality({p \in Vars(a) \X Vars(a) :
                    p[1] < p[2] /\ (HasEdge(a, p[1], p[2]) \/ HasEdge(a, p[2], p[1]))})

\* every linear bias of a is the one b has
SameLinear(a, b) ==
    \A w \in Vars(a) : w \in Vars(b) /\ get_linear(a, w) = get_linear(b, w)

\* outside the pair {u, v}, a and b store the same entries in the same order
SameButEdge(a, b, u, v) ==
    /\ Len(a) = Len(b)
    /\ \A w \in Vars(a) \ {u, v} : a[w + 1].first = b[w + 1].first
    /\ Without(a[u + 1].first, v) = Without(b[u + 1].first, v)
    /\ Without(a[v + 1].first, u) = Without(b[v + 1].first, u)

----------------------------------------------------------------------------
(* Invariants of the structure                                             *)

\* C1: whenever u's neighborhood holds (v, b), v's neighborhood holds (u, b),
\* and get_quadratic(u, v) and get_quadratic(v, u) both return (b, true);
\* after every call and after either constructor.
C1_Symmetry ==
    \A u \in Vars(adj) :
        \A i \in 1..Len(adj[u + 1].first) :
            LET v == adj[u + 1].first[i][1]
                b == adj[u + 1].first[i][2]
            IN  /\ v \in Vars(adj) \ {u}
                /\ HasEntry(adj, v, u, b)
                /\ get_quadratic(adj, u, v) = <<b, TRUE>>
                /\ get_quadratic(adj, v, u) = <<b, TRUE>>

\* an edge update has returned and the structure holds an edge that the call
\* did not touch
C1_Witness ==
    /\ op \in {"set_quadratic", "remove_interaction"}
    /\ \E u \in Vars(adj) : \E v \in Vars(adj) :
          /\ {u, v} # {args[1], args[2]}
          /\ HasEdge(adj, u, v)
          /\ HasEdge(prev, u, v)

\* C2: every neighborhood is strictly increasing by neighbor index, after
\* every call and after construction from a dense array.
C2_Sorted ==
    \A u \in Vars(adj) :
        \A i \in 1..(Len(adj[u + 1].first) - 1) :
            adj[u + 1].first[i][1] < adj[u + 1].first[i + 1][1]

\* the dense constructor has filled a neighborhood with a neighbor below and
\* a neighbor above its own variable
C2_Witness ==
    /\ op = "AdjVectorBQM(dense)"
    /\ Len(adj) = 3
    /\ HasEdge(adj, 1, 0)
    /\ HasEdge(adj, 1, 2)

\* C3: twice num_interactions() is the sum of the degrees.
C3_DegreeSum == 2 * num_interactions(adj) = SumDegrees(adj, Len(adj))

\* an edge has just been created or destroyed next to another edge
C3_Witness ==
    /\ op \in {"set_quadratic", "remove_interaction", "pop_variable"}
    /\ adj # prev
    /\ num_interactions(adj) >= 1
    /\ num_interactions(adj) # num_interactions(prev)

\* C4: every stored neighbor index is a variable of the structure.
C4_NoDangling ==
    \A u \in Vars(adj) :
        \A i \in 1..Len(adj[u + 1].first) :
            adj[u + 1].first[i][1] \in Vars(adj)

\* pop_variable has removed a variable that had a neighbor
C4_Witness ==
    /\ op = "pop_variable"
    /\ degree(prev, Len(prev) - 1) >= 1

----------------------------------------------------------------------------
(* Contracts of the members                                                *)

\* C5: set_quadratic(u, v, b) returns true and leaves (b, true) to be read
\* from both sides; an existing edge keeps both degrees and the number of
\* interactions, an absent one adds one entry to each of the two
\* neighborhoods and one interaction; all other entries and all linear biases
\* stay as they were.
C5_SetQuadratic ==
    op = "set_quadratic" =>
        LET u == args[1]
            v == args[2]
            b == args[3]
            grow == IF HasEdge(prev, u, v) THEN 0 ELSE 1
        IN  /\ ret = TRUE
            /\ get_quadratic(adj, u, v) = <<b, TRUE>>
            /\ get_quadratic(adj, v, u) = <<b, TRUE>>
            /\ Scan(adj[u + 1].first, v) = {b}
            /\ Scan(adj[v + 1].first, u) = {b}
            /\ degree(adj, u) = degree(prev, u) + grow
            /\ degree(adj, v) = degree(prev, v) + grow
            /\ num_interactions(adj) = num_interactions(prev) + grow
            /\ EdgeCount(adj) = EdgeCount(prev) + grow
            /\ SameButEdge(adj, prev, u, v)
            /\ SameLinear(adj, prev)

\* set_quadratic has inserted a new edge in front of an entry that u's
\* neighborhood already held
C5_Witness ==
    /\ op = "set_quadratic"
    /\ ~HasEdge(prev, args[1], args[2])
    /\ \E w \in Vars(prev) : w > args[2] /\ HasEdge(prev, args[1], w)

\* C6: get_quadratic(u, v) returns (b, true) exactly when u's neighborhood
\* holds an entry (v, b) and (0, false) exactly when it holds none for v,
\* as a scan of the whole neighborhood finds; the structure is as before.
C6_GetQuadratic ==
    op = "get_quadratic" =>
        LET u == args[1]
            v == args[2]
            scan == Scan(prev[u + 1].first, v)
        IN  /\ (scan = {}) <=> (ret = <<0, FALSE>>)
            /\ (scan # {}) <=> (ret[2] = TRUE)
            /\ ret[2] = TRUE => scan = {ret[1]}
            /\ adj = prev

\* get_quadratic has found the second of two entries
C6_Witness ==
    /\ op = "get_quadratic"
    /\ ret[2] = TRUE
    /\ degree(adj, args[1]) = 2
    /\ adj[args[1] + 1].first[2][1] = args[2]

\* C7: remove_interaction(u, v) on an existing edge returns true, leaves
\* (0, false) to be read from both sides, takes one entry from each of the
\* two neighborhoods and one interaction, and keeps all other entries and all
\* linear biases.
C7_RemoveExisting ==
    (op = "remove_interaction" /\ HasEdge(prev, args[1], args[2])) =>
        LET u == args[1]
            v == args[2]
        IN  /\ ret = TRUE
            /\ get_quadratic(adj, u, v) = <<0, FALSE>>
            /\ get_quadratic(adj, v, u) = <<0, FALSE>>
            /\ ~HasEdge(adj, u, v)
            /\ ~HasEdge(adj, v, u)
            /\ degree(adj, u) = degree(prev, u) - 1
            /\ degree(adj, v) = degree(prev, v) - 1
            /\ num_interactions(adj) = num_interactions(prev) - 1
            /\ EdgeCount(adj) = EdgeCount(prev) - 1
            /\ SameButEdge(adj, prev, u, v)
            /\ SameLinear(adj, prev)

\* remove_interaction has erased an edge whose two endpoints keep another
\* edge each
C7_Witness ==
    /\ op = "remove_interaction"
    /\ HasEdge(prev, args[1], args[2])
    /\ degree(adj, args[1]) >= 1
    /\ degree(adj, args[2]) >= 1

\* C8: remove_interaction(u, v) on valid indices without an edge between
\* them returns false and leaves the structure exactly as it was.
C8_RemoveAbsent ==
    (op = "remove_interaction" /\ ~HasEdge(prev, args[1], args[2])) =>
        /\ ret = FALSE
        /\ adj = prev

\* remove_interaction has looked for an absent neighbor in a neighborhood
\* that holds a larger one
C8_Witness ==
    /\ op = "remove_interaction"
    /\ args[1] # args[2]
    /\ ~HasEdge(prev, args[1], args[2])
    /\ \E w \in Vars(prev) : w > args[2] /\ HasEdge(prev, args[1], w)

\* C9: pop_variable() removes the variable with the highest index and
\* returns the new number of variables; each former neighbor loses exactly
\* its one entry for that index, and every survivor keeps its linear bias and
\* its entries for the other survivors.
C9_PopVariable ==
    op = "pop_variable" =>
        LET v == Len(prev) - 1
        IN  /\ Len(adj) = Len(prev) - 1
            /\ ret = Len(prev) - 1
            /\ ret = num_variables(adj)
            /\ \A w \in Vars(adj) :
                  /\ get_linear(adj, w) = get_linear(prev, w)
                  /\ adj[w + 1].first = Without(prev[w + 1].first, v)
                  /\ degree(adj, w) =
                        degree(prev, w) - (IF HasEdge(prev, v, w) THEN 1 ELSE 0)

\* pop_variable has removed a variable with a neighbor that keeps another edge
C9_Witness ==
    /\ op = "pop_variable"
    /\ \E w \in Vars(adj) : HasEdge(prev, Len(prev) - 1, w) /\ degree(adj, w) >= 1

\* C10: add_variable() returns the former number of variables, adds exactly
\* one variable, with linear bias zero and degree zero, and keeps every
\* existing variable's linear bias and neighborhood.
C10_AddVariable ==
    op = "add_variable" =>
        /\ ret = num_variables(prev)
        /\ num_variables(adj) = num_variables(prev) + 1
        /\ get_linear(adj, ret) = 0
        /\ degree(adj, ret) = 0
        /\ \A w \in Vars(prev) : adj[w + 1] = prev[w + 1]

\* add_variable has extended a structure that holds an edge and a nonzero
\* linear bias
C10_Witness ==
    /\ op = "add_variable"
    /\ num_interactions(prev) >= 1
    /\ \E w \in Vars(prev) : get_linear(prev, w) # 0

----------------------------------------------------------------------------
(* Relations between calls.  The first call is the one that has just       *)
(* returned (op, args, prev); the call that follows it, or the call made   *)
(* in its place, is the member applied to adj, or to prev.                 *)

\* C11: add_variable() followed immediately by pop_variable() gives back the
\* structure as it was before the add_variable: the same number of
\* variables, and for every variable the same linear bias, degree and
\* neighborhood.
C11_AddPopRoundTrip ==
    op = "add_variable" =>
        \A ubc \in UBOutcome :
            LET r == pop_variable(adj, ubc)
            IN  /\ r.adj = prev
                /\ r.ret = num_variables(prev)
                /\ num_variables(r.adj) = num_variables(prev)
                /\ \A w \in Vars(prev) :
                      /\ get_linear(r.adj, w) = get_linear(prev, w)
                      /\ degree(r.adj, w) = degree(prev, w)
                      /\ neighborhood(r.adj, w) = neighborhood(prev, w)

\* add_variable has extended a structure of two connected variables with
\* different linear biases
C11_Witness ==
    /\ op = "add_variable"
    /\ num_variables(prev) = 2
    /\ HasEdge(prev, 0, 1)
    /\ get_linear(prev, 0) # get_linear(prev, 1)

\* C12: a second set_quadratic(u, v, b) after the first leaves the structure
\* as the first left it, so num_interactions() is unchanged and
\* get_quadratic(u, v) is (b, true).
C12_SetTwice ==
    op = "set_quadratic" =>
        LET u == args[1]
            v == args[2]
            b == args[3]
            r == set_quadratic(adj, u, v, b)
        IN  /\ r.adj = adj
            /\ r.ret = TRUE
            /\ num_interactions(r.adj) = num_interactions(adj)
            /\ get_quadratic(r.adj, u, v) = <<b, TRUE>>
            /\ get_quadratic(r.adj, v, u) = <<b, TRUE>>

\* the first set_quadratic has created the edge, next to another edge of u
C12_Witness ==
    /\ op = "set_quadratic"
    /\ ~HasEdge(prev, args[1], args[2])
    /\ degree(adj, args[1]) = 2

----------------------------------------------------------------------------
(* Constructors                                                            *)

\* C13: built from a row-major n x n array M, the structure has n
\* variables, get_linear(i) is M[i][i] (0 when ignore_diagonal), and for
\* i # j get_quadratic(i, j) is (M[i][j] + M[j][i], true) when that sum is
\* not zero and (0, false) when it is.
C13_Dense ==
    op = "AdjVectorBQM(dense)" =>
        LET dense == args[1]
            n == args[2]
            ignore_diagonal == args[3]
        IN  /\ num_variables(adj) = n
            /\ \A i \in 0..(n - 1) :
                  get_linear(adj, i) = IF ignore_diagonal THEN 0 ELSE dense[i * n + i]
            /\ \A i \in 0..(n - 1) : \A j \in (0..(n - 1)) \ {i} :
                  LET sum == dense[i * n + j] + dense[j * n + i]
                  IN  get_quadratic(adj, i, j) =
                          IF sum # 0 THEN <<sum, TRUE>> ELSE <<0, FALSE>>

\* a 3 x 3 array with a symmetric nonzero pair, a pair of nonzero entries
\* that cancel, a pair with one zero entry, and a nonzero diagonal
C13_Witness ==
    /\ op = "AdjVectorBQM(dense)"
    /\ args[2] = 3
    /\ ~args[3]
    /\ args[1][1] = 1 /\ args[1][3] = 1
    /\ args[1][2] = 1 /\ args[1][6] = -1
    /\ args[1][5] = 0 /\ args[1][7] = -1
    /\ args[1][0] = -1
    /\ get_quadratic(adj, 0, 1) = <<2, TRUE>>
    /\ get_quadratic(adj, 0, 2) = <<0, FALSE>>
    /\ get_quadratic(adj, 2, 1) = <<-1, TRUE>>

\* every entry (u -> v, b) of a has its mirror (v -> u, b)
SymmetricIn(a) ==
    \A u \in Vars(a) :
        \A i \in 1..Len(a[u + 1].first) :
            /\ a[u + 1].first[i][1] \in Vars(a)
            /\ HasEntry(a, a[u + 1].first[i][1], u, a[u + 1].first[i][2])

\* every neighborhood of a is strictly increasing by neighbor index
SortedIn(a) ==
    \A u \in Vars(a) :
        \A i \in 1..(Len(a[u + 1].first) - 1) :
            a[u + 1].first[i][1] < a[u + 1].first[i + 1][1]

\* C14: the copy has the source's number of variables, the source's linear
\* bias for every variable and the source's neighborhood for every variable,
\* entry for entry in the same order; a symmetric and sorted source gives a
\* symmetric and sorted copy.
C14_Copy ==
    op = "AdjVectorBQM(bqm)" =>
        /\ num_variables(adj) = num_variables(prev)
        /\ \A v \in Vars(prev) :
              /\ get_linear(adj, v) = get_linear(prev, v)
              /\ degree(adj, v) = degree(prev, v)
              /\ \A i \in 1..degree(prev, v) :
                    neighborhood(adj, v)[i] = neighborhood(prev, v)[i]
        /\ (SymmetricIn(prev) /\ SortedIn(prev)) => (SymmetricIn(adj) /\ SortedIn(adj))

\* the source was symmetric and sorted, with an edge and two different
\* linear biases
C14_Witness ==
    /\ op = "AdjVectorBQM(bqm)"
    /\ SymmetricIn(prev)
    /\ SortedIn(prev)
    /\ num_variables(prev) = 2
    /\ HasEdge(prev, 0, 1)
    /\ get_linear(prev, 0) # get_linear(prev, 1)

----------------------------------------------------------------------------
(* The worked example                                                      *)

\* C15: from empty, three add_variable() return 0, 1, 2; after
\* set_linear(0, 1.5), set_quadratic(0, 1, 2.0), set_quadratic(1, 2, -1.0)
\* the degrees are 1, 2, 1, there are 2 interactions and get_quadratic(0, 2)
\* is (0, false); remove_interaction(0, 1) then returns true and leaves
\* degrees 0 and 1 for variables 0 and 1 and 1 interaction; pop_variable()
\* then removes variable 2 and leaves degree(1) = 0 and 2 variables.
C15_Scenario ==
    /\ op = "add_variable" =>
          /\ ret = num_variables(prev)
          /\ num_variables(prev) = 0 => ret = 0
          /\ num_variables(prev) = 1 => ret = 1
          /\ num_variables(prev) = 2 => ret = 2
    /\ (op = "set_quadratic" /\ args[1] = 1) =>
          /\ degree(adj, 0) = 1
          /\ degree(adj, 1) = 2
          /\ degree(adj, 2) = 1
          /\ num_interactions(adj) = 2
          /\ get_quadratic(adj, 0, 2) = <<0, FALSE>>
    /\ op = "remove_interaction" =>
          /\ ret = TRUE
          /\ degree(adj, 0) = 0
          /\ degree(adj, 1) = 1
          /\ num_interactions(adj) = 1
    /\ op = "pop_variable" =>
          /\ num_variables(prev) - 1 = 2
          /\ degree(adj, 1) = 0
          /\ num_variables(adj) = 2
          /\ ret = 2

\* the example has reached remove_interaction(0, 1) with its own biases:
\* linear 1.5 on variable 0, 2.0 on the edge (0, 1), -1.0 on the edge (1, 2)
C15_Witness ==
    /\ op = "remove_interaction"
    /\ args = <<0, 1>>
    /\ num_variables(prev) = 3
    /\ get_linear(prev, 0) = 3
    /\ get_quadratic(prev, 0, 1) = <<4, TRUE>>
    /\ get_quadratic(prev, 1, 2) = <<-2, TRUE>>

----------------------------------------------------------------------------
(* Further invariants                                                      *)

\* C16: no variable appears in its own neighborhood, after either
\* constructor and after every call made within its preconditions.
C16_NoSelfLoop ==
    \A u \in Vars(adj) :
        \A i \in 1..Len(adj[u + 1].first) :
            adj[u + 1].first[i][1] # u

\* the dense constructor has built the complete graph on three variables
\* from an array with a nonzero diagonal
C16_Witness ==
    /\ op = "AdjVectorBQM(dense)"
    /\ args[2] = 3
    /\ \A u \in 0..2 : degree(adj, u) = 2 /\ get_linear(adj, u) # 0

\* C17: every lookup from the other side agrees with the first: in
\* set_quadratic and remove_interaction the search of v's neighborhood for u
\* finds an entry exactly when the search of u's neighborhood for v did, and
\* in pop_variable the search of each neighbor's neighborhood lands on an
\* entry for the removed variable, never on end() or on another entry.
C17_MirrorLookup ==
    /\ ub = FALSE
    /\ op = "set_quadratic" =>
          set_quadratic(prev, args[1], args[2], args[3]).mirror
    /\ op = "remove_interaction" =>
          \A ubc \in UBOutcome :
              LET r == remove_interaction(prev, args[1], args[2], ubc)
              IN  r.mirror /\ ~r.ub
    /\ op = "pop_variable" =>
          \A ubc \in UBOutcome :
              LET r == pop_variable(prev, ubc)
              IN  r.mirror /\ ~r.ub

\* pop_variable has removed a variable with two neighbors that were
\* neighbors of each other
C17_Witness ==
    /\ op = "pop_variable"
    /\ num_variables(prev) = 3
    /\ \A u \in 0..2 : degree(prev, u) = 2

----------------------------------------------------------------------------
(* Behaviour of set_quadratic beyond its contract                          *)

\* C18: set_quadratic(u, v, 0) stores a real edge: on a pair without an edge
\* it adds an entry to both neighborhoods, so both degrees and the number of
\* interactions grow by one and get_quadratic(u, v) is (0, true), not the
\* (0, false) of an absent edge; on an existing edge it keeps the edge.
C18_ZeroBiasEdge ==
    (op = "set_quadratic" /\ args[3] = 0) =>
        LET u == args[1]
            v == args[2]
            grow == IF HasEdge(prev, u, v) THEN 0 ELSE 1
        IN  /\ HasEntry(adj, u, v, 0)
            /\ HasEntry(adj, v, u, 0)
            /\ get_quadratic(adj, u, v) = <<0, TRUE>>
            /\ get_quadratic(adj, v, u) = <<0, TRUE>>
            /\ get_quadratic(adj, u, v) # <<0, FALSE>>
            /\ degree(adj, u) = degree(prev, u) + grow
            /\ degree(adj, v) = degree(prev, v) + grow
            /\ num_interactions(adj) = num_interactions(prev) + grow

\* set_quadratic(u, v, 0) has been called on a pair without an edge
C18_Witness ==
    /\ op = "set_quadratic"
    /\ args[3] = 0
    /\ get_quadratic(prev, args[1], args[2]) = <<0, FALSE>>
    /\ get_quadratic(adj, args[1], args[2]) = <<0, TRUE>>

\* C19: set_quadratic(u, v, b) then set_quadratic(x, y, c), for two
\* different pairs {u, v} and {x, y}, gives the same neighborhoods, entry for
\* entry, as the two calls in the opposite order.
C19_OrderIndependent ==
    op = "set_quadratic" =>
        LET u == args[1]
            v == args[2]
            b == args[3]
        IN  \A x \in Vars(prev) : \A y \in Vars(prev) \ {x} : \A c \in Bias :
                {x, y} # {u, v} =>
                    set_quadratic(adj, x, y, c).adj =
                        set_quadratic(set_quadratic(prev, x, y, c).adj, u, v, b).adj

\* set_quadratic has inserted the first entry of u's neighborhood, and
\* another variable is there for a second insertion into it
C19_Witness ==
    /\ op = "set_quadratic"
    /\ degree(prev, args[1]) = 0
    /\ degree(adj, args[1]) = 1
    /\ num_variables(prev) = 3
    /\ num_interactions(prev) = 0

\* C20: the order of the two endpoints does not matter: set_quadratic(v, u, b)
\* called in place of set_quadratic(u, v, b) gives the same structure and
\* the same result, and so does remove_interaction(v, u) in place of
\* remove_interaction(u, v).
C20_EndpointOrder ==
    /\ op = "set_quadratic" =>
          LET r == set_quadratic(prev, args[2], args[1], args[3])
          IN  r.adj = adj /\ r.ret = ret
    /\ (op = "remove_interaction" /\ args[1] # args[2]) =>
          \A ubc \in UBOutcome :
              LET r == remove_interaction(prev, args[2], args[1], ubc)
              IN  r.adj = adj /\ r.ret = ret

\* set_quadratic has overwritten an existing edge with another bias, in a
\* structure where both endpoints have a further neighbor
C20_Witness ==
    /\ op = "set_quadratic"
    /\ HasEdge(prev, args[1], args[2])
    /\ get_quadratic(prev, args[1], args[2]) # <<args[3], TRUE>>
    /\ degree(prev, args[1]) = 2
    /\ degree(prev, args[2]) = 2

====
